---- MODULE Spec2Model ----
(***************************************************************************)
(* Model of keg's BLTE decoder (src/keg/blte.py): decode_block and the     *)
(* class BLTEDecoder (__init__, parse_header, parse_block_info and the two *)
(* generator properties blocks / encoded_blocks).                          *)
(*                                                                         *)
(* A byte string is a sequence of integers in 0..255.  A hex string        *)
(* (hexdigest(), hexlify().decode()) is the sequence of the code points of *)
(* its characters.  An exception is a record [cls, args, site]: cls is the *)
(* Python class the source raises, args its arguments, site the raising    *)
(* statement.                                                              *)
(*                                                                         *)
(* Library functions are modelled by what they compute on the inputs the   *)
(* model feeds them:                                                       *)
(*   - hashlib.md5 is an abstract 16-byte digest (a deterministic function *)
(*     of the data; it is not the real MD5 and may collide);               *)
(*   - zlib.decompress(.., wbits=0) is the zlib container (RFC 1950) over  *)
(*     deflate stored blocks (RFC 1951, BTYPE=00); Huffman-coded blocks are*)
(*     outside the model and never occur in its inputs.                    *)
(***************************************************************************)
EXTENDS Integers, Sequences, FiniteSets, TLC

VARIABLES
    fp,            \* self.fp: the bytes of the borrowed stream
    pos,           \* the stream's position (fp.tell())
    block_table,   \* self.block_table: sequence of <<encoded_size, decoded_size, md5 hex>>
    block_index,   \* self._block_index
    hash,          \* self.hash: the expected header checksum (hex string)
    verify,        \* self.verify
    phase,         \* "new": before BLTEDecoder(...); "ready": constructed; "failed": __init__ raised
    err,           \* the last exception raised to the caller
    views,         \* the generator objects obtained from .blocks / .encoded_blocks
    last,          \* what the last operation did (observation of the caller)
    twin           \* a second run, in lock-step, on an input differing only in checksum data

vars == <<fp, pos, block_table, block_index, hash, verify, phase, err, views, last, twin>>

(***************************************************************************)
(* Bounds of the model.                                                    *)
(***************************************************************************)
MaxBlocks == 2     \* block-table entries of the generated containers
MaxViews == 2      \* generator objects the caller obtains from one decoder

(***************************************************************************)
(* Byte strings.                                                           *)
(***************************************************************************)
Min(a, b) == IF a < b THEN a ELSE b

Take(s, n) == SubSeq(s, 1, Min(n, Len(s)))

Drop(s, n) == SubSeq(s, Min(n, Len(s)) + 1, Len(s))

RECURSIVE Concat(_)
Concat(ss) == IF ss = <<>> THEN <<>> ELSE Head(ss) \o Concat(Tail(ss))

\* the sum of w(k) * s[k] over k in lo..hi, with w(k) = 1 (plain) or w(k) = k (weighted)
RECURSIVE SumRange(_, _, _, _)
SumRange(s, lo, hi, weighted) ==
    IF lo > hi THEN 0
    ELSE IF lo = hi THEN (IF weighted THEN lo * s[lo] ELSE s[lo])
    ELSE LET mid == (lo + hi) \div 2
         IN  SumRange(s, lo, mid, weighted) + SumRange(s, mid + 1, hi, weighted)

SumSeq(s) == SumRange(s, 1, Len(s), FALSE)

WeightedSum(s) == SumRange(s, 1, Len(s), TRUE)

\* struct.pack(">i", n) for 0 <= n < 2^31: 4 bytes, big-endian
U32BE(n) == <<n \div 16777216, (n \div 65536) % 256, (n \div 256) % 256, n % 256>>

\* 3 bytes, big-endian
U24BE(n) == <<(n \div 65536) % 256, (n \div 256) % 256, n % 256>>

\* struct.unpack(">i", b): signed 32-bit big-endian
UnpackI32(b) ==
    (IF b[1] >= 128 THEN b[1] - 256 ELSE b[1]) * 16777216 + b[2] * 65536 + b[3] * 256 + b[4]

\* fp.read(n) at position p: at most n bytes; everything that is left when n < 0
Read(s, p, n) == IF n < 0 THEN Drop(s, p) ELSE Take(Drop(s, p), n)

(***************************************************************************)
(* hashlib.md5(data).digest(), abstracted.                                 *)
(***************************************************************************)
MD5(data) ==
    LET s1 == SumSeq(data)
        s2 == WeightedSum(data)
    IN  [j \in 1..16 |-> (s1 + j * s2 + 171 * j + Len(data)) % 256]

\* the characters 0..9 and a..f, as their code points
HexChars == <<48, 49, 50, 51, 52, 53, 54, 55, 56, 57, 97, 98, 99, 100, 101, 102>>

\* binascii.hexlify(b).decode() / hashlib's hexdigest(): lower-case hex
Hexlify(b) == [k \in 1..(2 * Len(b)) |->
                 LET byte == b[(k + 1) \div 2]
                 IN  IF k % 2 = 1 THEN HexChars[(byte \div 16) + 1] ELSE HexChars[(byte % 16) + 1]]

HexDigest(data) == Hexlify(MD5(data))

(***************************************************************************)
(* Exceptions.                                                             *)
(***************************************************************************)
Exc(cls, args, site) == [cls |-> cls, args |-> args, site |-> site]

NoErr == Exc("none", <<>>, "none")

\* the class of the exception each raising statement of blte.py raises
ErrorClass(site) ==
    CASE site \in {"magic", "version", "header md5", "block md5"} -> "AssertionError"
      [] site = "already iterated" -> "RuntimeError"
      [] site = "unknown type" -> "ValueError"
      [] site = "type" -> "IndexError"
      [] site = "decompress" -> "zlib.error"
      [] site \in {"header_size", "num_blocks", "block entry"} -> "struct.error"

Raised(site, args) == Exc(ErrorClass(site), args, site)

(***************************************************************************)
(* zlib.decompress(payload, wbits=0): the zlib container (2-byte header,   *)
(* deflate body, Adler-32 trailer); bytes after the trailer are ignored.   *)
(* The result is [ok, value, err].                                         *)
(***************************************************************************)
ZlibError(msg) == [ok |-> FALSE, value |-> <<>>, err |-> Raised("decompress", <<msg>>)]

Adler32(data) ==
    LET a == (1 + SumSeq(data)) % 65521
        b == (Len(data) + WeightedSum([k \in 1..Len(data) |-> data[Len(data) + 1 - k]])) % 65521
    IN  <<b \div 256, b % 256, a \div 256, a % 256>>

\* the deflate body: a sequence of blocks up to the one marked final
RECURSIVE InflateBlocks(_, _)
InflateBlocks(s, out) ==
    IF s = <<>> THEN [st |-> "truncated", out |-> out, rest |-> <<>>]
    ELSE LET bfinal == s[1] % 2
             btype == (s[1] \div 2) % 4
         IN  IF btype = 3 THEN [st |-> "invalid block type", out |-> out, rest |-> <<>>]
             ELSE IF btype # 0 THEN [st |-> "huffman", out |-> out, rest |-> <<>>]
             ELSE IF Len(s) < 5 THEN [st |-> "truncated", out |-> out, rest |-> <<>>]
             ELSE LET len == s[2] + 256 * s[3]
                      nlen == s[4] + 256 * s[5]
                  IN  IF len + nlen # 65535
                      THEN [st |-> "invalid stored block lengths", out |-> out, rest |-> <<>>]
                      ELSE IF Len(s) < 5 + len
                      THEN [st |-> "truncated", out |-> out, rest |-> <<>>]
                      ELSE IF bfinal = 1
                      THEN [st |-> "end", out |-> out \o SubSeq(s, 6, 5 + len),
                            rest |-> Drop(s, 5 + len)]
                      ELSE InflateBlocks(Drop(s, 5 + len), out \o SubSeq(s, 6, 5 + len))

\* zlib_decompress with wbits=-15: the payload taken as a bare deflate stream
raw_inflate(payload) ==
    LET body == InflateBlocks(payload, <<>>)
    IN  IF body.st = "truncated" THEN ZlibError("incomplete or truncated stream")
        ELSE IF body.st # "end" THEN ZlibError(body.st)
        ELSE [ok |-> TRUE, value |-> body.out, err |-> NoErr]

zlib_decompress(payload) ==
    IF Len(payload) < 2 THEN ZlibError("incomplete or truncated stream")
    ELSE IF (payload[1] * 256 + payload[2]) % 31 # 0 THEN ZlibError("incorrect header check")
    ELSE IF payload[1] % 16 # 8 THEN ZlibError("unknown compression method")
    ELSE IF payload[1] \div 16 > 7 THEN ZlibError("invalid window size")
    ELSE IF (payload[2] \div 32) % 2 = 1 THEN ZlibError("need dictionary")
    ELSE LET body == InflateBlocks(Drop(payload, 2), <<>>)
         IN  IF body.st = "truncated" THEN ZlibError("incomplete or truncated stream")
             ELSE IF body.st # "end" THEN ZlibError(body.st)
             ELSE IF Len(body.rest) < 4 THEN ZlibError("incomplete or truncated stream")
             ELSE IF Take(body.rest, 4) # Adler32(body.out) THEN ZlibError("incorrect data check")
             ELSE [ok |-> TRUE, value |-> body.out, err |-> NoErr]

(***************************************************************************)
(* decode_block(data).  The result is [ok, value, err].                    *)
(***************************************************************************)
TagN == 78

TagZ == 90

decode_block(data) ==
    IF data = <<>>
    THEN [ok |-> FALSE, value |-> <<>>, err |-> Raised("type", <<>>)]
    ELSE LET type == data[1]
         IN  IF type = TagN THEN [ok |-> TRUE, value |-> Tail(data), err |-> NoErr]
             ELSE IF type = TagZ THEN zlib_decompress(Tail(data))
             ELSE [ok |-> FALSE, value |-> <<>>,
                   err |-> Raised("unknown type", <<type>>)]

(***************************************************************************)
(* One run of the program: a record d of the decoder's fields (fp, pos,    *)
(* block_table, block_index, hash, verify), the caller's view of it        *)
(* (phase, err, views) and the observation of the last operation (last).   *)
(***************************************************************************)
\* op: the operation; view, first: the view pulled, and whether that was its first
\* next(); from: the stream position it started at; res: "return", "raise", "yield"
\* or "stop" (StopIteration); data, entry: the block bytes it read and for which
\* table entry; codec: decode_block was called; value: the value yielded
Obs(op, view, first, from, res, data, entry, codec, value) ==
    [op |-> op, view |-> view, first |-> first, from |-> from, res |-> res, data |-> data,
     entry |-> entry, codec |-> codec, value |-> value]

NoObs == Obs("none", 0, FALSE, 0, "none", <<>>, -1, FALSE, <<>>)

\* the state before BLTEDecoder(fp, hash, verify) is called
NewRun(stream, h, v) ==
    [fp |-> stream, pos |-> 0, block_table |-> <<>>, block_index |-> 0, hash |-> h,
     verify |-> v, phase |-> "new", err |-> NoErr, views |-> <<>>, last |-> NoObs]

\* an exception leaves __init__: no decoder object reaches the caller
InitRaise(d, p, table, e) ==
    [d EXCEPT !.pos = p, !.block_table = table, !.phase = "failed", !.err = e,
              !.last = Obs("construct", 0, FALSE, d.pos, "raise", <<>>, -1, FALSE, <<>>)]

StructError(site) == Raised(site, <<>>)

\* ParseEntries putting each new entry in front of the table
RECURSIVE ParseEntriesReversed(_, _, _, _)
ParseEntriesReversed(data, i, num_blocks, table) ==
    IF i >= num_blocks THEN [ok |-> TRUE, table |-> table]
    ELSE LET chunk == Read(data, 3 + 24 * i, 4 + 4 + 16)
         IN  IF Len(chunk) # 24 THEN [ok |-> FALSE, table |-> table]
             ELSE ParseEntriesReversed(data, i + 1, num_blocks,
                                       <<<<UnpackI32(SubSeq(chunk, 1, 4)),
                                           UnpackI32(SubSeq(chunk, 5, 8)),
                                           Hexlify(SubSeq(chunk, 9, 24))>>>> \o table)

\* the loop of parse_block_info: entry i is the 24 bytes at offset 3 + 24 * i
RECURSIVE ParseEntries(_, _, _, _)
ParseEntries(data, i, num_blocks, table) ==
    IF i >= num_blocks THEN [ok |-> TRUE, table |-> table]
    ELSE LET chunk == Read(data, 3 + 24 * i, 4 + 4 + 16)
         IN  IF Len(chunk) # 24 THEN [ok |-> FALSE, table |-> table]
             ELSE ParseEntries(data, i + 1, num_blocks,
                               Append(table, <<UnpackI32(SubSeq(chunk, 1, 4)),
                                               UnpackI32(SubSeq(chunk, 5, 8)),
                                               Hexlify(SubSeq(chunk, 9, 24))>>))

\* parse_block_info(fp): the result is [ok, table, err]
parse_block_info(data) ==
    LET count == Read(data, 0, 3)
    IN  IF Len(count) # 3
        THEN [ok |-> FALSE, table |-> <<>>, err |-> StructError("num_blocks")]
        ELSE LET r == ParseEntries(data, 0, UnpackI32(<<0>> \o count), <<>>)
             IN  [ok |-> r.ok, table |-> r.table,
                  err |-> IF r.ok THEN NoErr ELSE StructError("block entry")]

Magic == <<66, 76, 84, 69>>

VersionByte == 15

\* HeaderHashInput without the version byte, which parse_header reads apart
HeaderHashInputNoVersion(blte_header_data, block_info_data) ==
    blte_header_data \o block_info_data

\* the bytes the header checksum is computed over
HeaderHashInput(blte_header_data, block_info_data) ==
    blte_header_data \o <<VersionByte>> \o block_info_data

\* BlockInfoLength forgetting that the version byte has been read
BlockInfoLengthOffByOne(header_size) == header_size - 8

\* the number of bytes parse_header asks for after the version byte
BlockInfoLength(header_size) == header_size - 9

\* __init__ and parse_header
Construct(d) ==
    LET blte_header_data == Read(d.fp, d.pos, 8)
        p1 == d.pos + Len(blte_header_data)
    IN  IF Take(blte_header_data, 4) # Magic
        THEN InitRaise(d, p1, <<>>, Raised("magic", <<>>))
        ELSE IF Len(blte_header_data) # 8
        THEN InitRaise(d, p1, <<>>, StructError("header_size"))
        ELSE
        LET header_size == UnpackI32(SubSeq(blte_header_data, 5, 8))
            version == Read(d.fp, p1, 1)
            p2 == p1 + Len(version)
        IN  IF version # <<VersionByte>>
            THEN InitRaise(d, p2, <<>>, Raised("version", <<>>))
            ELSE
            LET block_info_data == Read(d.fp, p2, BlockInfoLength(header_size))
                p3 == p2 + Len(block_info_data)
            IN  IF d.verify
                   /\ d.hash # HexDigest(HeaderHashInput(blte_header_data, block_info_data))
                THEN InitRaise(d, p3, <<>>, Raised("header md5", <<>>))
                ELSE
                LET r == parse_block_info(block_info_data)
                IN  IF ~r.ok THEN InitRaise(d, p3, r.table, r.err)
                    ELSE [d EXCEPT !.pos = p3, !.block_table = r.table, !.phase = "ready",
                                   !.err = NoErr,
                                   !.last = Obs("construct", 0, FALSE, d.pos, "return",
                                                <<>>, -1, FALSE, <<>>)]

(***************************************************************************)
(* The generator objects.  A view is the generator a property access       *)
(* returns: kind (the property), st ("created": no next() yet, "suspended":*)
(* at its yield, "closed": returned or raised), it (the position of its    *)
(* `for` loop in block_table), and what the caller saw of it: out (the     *)
(* values it yielded), nread (the bytes it read from the stream), end (how *)
(* it closed), late (a view had been driven to completion when this one    *)
(* was obtained) and upfront (no view had been pulled yet when this one    *)
(* was obtained).                                                          *)
(* The generator of .blocks drives a private encoded_blocks generator that *)
(* it creates at its first next(); the two are one view here.              *)
(***************************************************************************)
NewView(d, kind) ==
    [kind |-> kind, st |-> "created", it |-> 0, out |-> <<>>, nread |-> 0, end |-> "none",
     late |-> \E u \in 1..Len(d.views) : d.views[u].end = "exhausted",
     upfront |-> \A u \in 1..Len(d.views) : d.views[u].st = "created"]

\* d.blocks / d.encoded_blocks: the property access only creates the generator
GetView(d, kind) ==
    IF d.phase # "ready" THEN d
    ELSE [d EXCEPT !.views = Append(d.views, NewView(d, kind)),
                   !.last = Obs("view", Len(d.views) + 1, FALSE, d.pos, "return", <<>>, -1,
                                FALSE, <<>>)]

Step(p, bi, g, res, data, entry, e) ==
    [pos |-> p, block_index |-> bi, g |-> g, res |-> res, data |-> data, entry |-> entry,
     err |-> e, codec |-> FALSE, value |-> data]

\* d.block_table: reading the attribute (its length, its entries)
InspectTable(d) ==
    IF d.phase # "ready" THEN d
    ELSE [d EXCEPT !.last = Obs("inspect", 0, FALSE, d.pos, "return", <<>>, -1, FALSE, <<>>)]

\* `if self._block_index:` at the first next() of an encoded_blocks generator
AlreadyIterated(d) == d.block_index # 0

\* BlockChecksumFails without the test of self.verify
BlockChecksumAlwaysChecked(d, md5, data) == md5 # HexDigest(data)

\* `if self.verify: assert md5 == hashlib.md5(data).hexdigest()`
BlockChecksumFails(d, md5, data) == d.verify /\ md5 # HexDigest(data)

\* AfterChecksumFailure of a loop that skips the bad block and goes on
SkipsAfterChecksumFailure(g, n) ==
    [g EXCEPT !.st = "suspended", !.end = "block md5", !.it = g.it + 1, !.nread = g.nread + n]

\* the failed assert leaves the generator: it is closed for good
AfterChecksumFailure(g, n) ==
    [g EXCEPT !.st = "closed", !.end = "block md5", !.nread = g.nread + n]

\* BlockReadSize taking the entry's decoded_size
BlockReadSizeDecoded(entry) == entry[2]

\* the number of bytes one iteration of encoded_blocks asks the stream for
BlockReadSize(entry) == entry[1]

\* NextBlockIndex of a loop that never counts the block
NextBlockIndexStuck(d) == d.block_index

\* `self._block_index += 1`, between the checksum check and the yield
NextBlockIndex(d) == d.block_index + 1

\* next() on a closed generator raises StopIteration and runs none of its code
ClosedNext(d, g) == Step(d.pos, d.block_index, g, "stop", <<>>, -1, NoErr)

\* next() on an encoded_blocks generator
EncodedNext(d, g) ==
    IF g.st = "closed" THEN ClosedNext(d, g)
    ELSE IF g.st = "created" /\ AlreadyIterated(d)
    THEN Step(d.pos, d.block_index, [g EXCEPT !.st = "closed", !.end = "already iterated"],
              "raise", <<>>, -1,
              Raised("already iterated", <<"BLTE.blocks has already been iterated over">>))
    ELSE IF g.it >= Len(d.block_table)
    THEN Step(d.pos, d.block_index, [g EXCEPT !.st = "closed", !.end = "exhausted"],
              "stop", <<>>, -1, NoErr)
    ELSE LET entry == d.block_table[g.it + 1]
             data == Read(d.fp, d.pos, BlockReadSize(entry))
             p == d.pos + Len(data)
         IN  IF BlockChecksumFails(d, entry[3], data)
             THEN Step(p, d.block_index, AfterChecksumFailure(g, Len(data)),
                       "raise", data, g.it, Raised("block md5", <<>>))
             ELSE Step(p, NextBlockIndex(d),
                       [g EXCEPT !.st = "suspended", !.it = g.it + 1,
                                 !.nread = g.nread + Len(data)],
                       "yield", data, g.it, NoErr)

\* next() on a blocks generator
BlocksNext(d, g) ==
    LET r == EncodedNext(d, g)
    IN  IF r.res # "yield" THEN r
        ELSE LET dec == decode_block(r.data)
             IN  IF dec.ok THEN [r EXCEPT !.value = dec.value, !.codec = TRUE]
                 ELSE [r EXCEPT !.res = "raise", !.err = dec.err, !.codec = TRUE,
                                !.value = <<>>,
                                !.g = [r.g EXCEPT !.st = "closed", !.end = dec.err.site]]

\* next(view v), as the caller sees it
Pull(d, v) ==
    IF d.phase # "ready" \/ v > Len(d.views) THEN d
    ELSE LET g == d.views[v]
             r == IF g.kind = "blocks" THEN BlocksNext(d, g) ELSE EncodedNext(d, g)
             g2 == IF r.res = "yield" THEN [r.g EXCEPT !.out = Append(g.out, r.value)] ELSE r.g
         IN  [d EXCEPT !.pos = r.pos, !.block_index = r.block_index,
                       !.views = [d.views EXCEPT ![v] = g2],
                       !.err = IF r.res = "raise" THEN r.err ELSE d.err,
                       !.last = Obs("pull", v, g.st = "created", d.pos, r.res, r.data,
                                    r.entry, r.codec,
                                    IF r.res = "yield" THEN r.value ELSE <<>>)]

(***************************************************************************)
(* The inputs: containers written to the layout of the comment at the head *)
(* of blte.py, then tampered with in one place at most.                    *)
(***************************************************************************)
\* deflate of q as one final stored block
RawStored(q) ==
    <<1, Len(q) % 256, Len(q) \div 256, (65535 - Len(q)) % 256, (65535 - Len(q)) \div 256>> \o q

\* zlib.compress(q, 0): header 78 01, stored block, Adler-32
ZlibStored(q) == <<120, 1>> \o RawStored(q) \o Adler32(q)

\* what the blocks of the generated containers hold
Contents == {<<97>>, <<113>>, <<120, 121>>}

\* the two encodings of q: stored, and zlib-compressed
Encodings(q) == {<<TagN>> \o q, <<TagZ>> \o ZlibStored(q)}

BlockN == <<TagN, 97>>

BlockZ == <<TagZ>> \o ZlibStored(<<113>>)

BlockZRaw == <<TagZ>> \o RawStored(<<113>>)

BlockX == <<88, 97>>

GoodBlocks == {BlockN, BlockZ}

\* a table entry with encoded_size 0: a block without a tag byte
BlockEmpty == <<>>

OddBlocks == {BlockZRaw, BlockX, <<TagZ>> \o ZlibStored(<<120, 121>>), BlockEmpty}

SeqsUpTo(S, n) == UNION {[1..k -> S] : k \in 0..n}

\* every block well-formed, or exactly one odd block among stored ones
BlockSeqs ==
    SeqsUpTo(GoodBlocks, MaxBlocks)
    \cup {[k \in 1..n |-> IF k = i THEN b ELSE BlockN] :
            n \in 1..MaxBlocks, i \in 1..MaxBlocks, b \in OddBlocks}

TableEntry(b) ==
    LET dec == decode_block(b)
    IN  U32BE(Len(b)) \o U32BE(IF dec.ok THEN Len(dec.value) ELSE 0) \o MD5(b)

HeaderLength(n) == 12 + 24 * n

Container(blocks) ==
    Magic \o U32BE(HeaderLength(Len(blocks))) \o <<VersionByte>> \o U24BE(Len(blocks))
    \o Concat([k \in 1..Len(blocks) |-> TableEntry(blocks[k])]) \o Concat(blocks)

Bump(s, k) == IF k \in 1..Len(s) THEN [s EXCEPT ![k] = (s[k] + 1) % 256] ELSE s

\* index of the first checksum byte of table entry i (0-based i)
ChecksumAt(i) == 12 + 24 * i + 8 + 1

\* the blocks N, Z, N, ... : the container the tampered streams are made from
Alternating(n) == [k \in 1..n |-> IF k % 2 = 1 THEN BlockN ELSE BlockZ]

\* the same block twice: the bytes after a spoilt first block fit its table entry
Repeated == <<BlockN, BlockN>>

\* <<blocks, tamper>>: what is written, and the one place where it is changed
Streams ==
    {<<blocks, t>> : blocks \in SeqsUpTo(GoodBlocks, MaxBlocks),
                     t \in {<<"none", 0>>, <<"magic", 0>>, <<"version", 0>>, <<"truncated", 0>>}}
    \cup {<<blocks, <<"none", 0>> >> : blocks \in BlockSeqs}
    \cup {<<Alternating(n), <<t, 0>> >> : n \in 0..MaxBlocks, t \in {"size0", "size9", "size+1"}}
    \cup {<<Alternating(n), <<t, i>> >> :
             n \in 1..MaxBlocks, t \in {"md5", "payload"}, i \in 0..(MaxBlocks - 1)}
    \cup {<<Repeated, <<"payload", 0>> >>}

Tamper(blocks, t) ==
    LET c == Container(blocks)
        n == Len(blocks)
    IN  CASE t[1] = "none" -> c
          [] t[1] = "magic" -> Bump(c, 4)
          [] t[1] = "version" -> Bump(c, 9)
          [] t[1] = "size0" -> [k \in 1..Len(c) |-> IF k \in 5..8 THEN 0 ELSE c[k]]
          [] t[1] = "size9" -> [k \in 1..Len(c) |-> IF k \in 5..7 THEN 0 ELSE IF k = 8 THEN 9 ELSE c[k]]
          [] t[1] = "size+1" -> Bump(c, 8)
          [] t[1] = "truncated" -> Take(c, HeaderLength(n) - 1)
          [] t[1] = "md5" -> IF t[2] < n THEN Bump(c, ChecksumAt(t[2])) ELSE c
          [] t[1] = "payload" ->
                IF t[2] < n
                THEN Bump(c, HeaderLength(n) + Len(Concat(SubSeq(blocks, 1, t[2] + 1))))
                ELSE c

\* the same stream with every table entry's checksum changed
RECURSIVE OtherChecksums(_, _)
OtherChecksums(c, n) == IF n = 0 THEN c ELSE OtherChecksums(Bump(c, ChecksumAt(n - 1)), n - 1)

\* another 32-digit hex string
OtherHash(h) == [h EXCEPT ![1] = IF h[1] = 48 THEN 49 ELSE 48]

\* str.upper() and str.lower() on a hex string
Upper(h) == [k \in DOMAIN h |-> IF h[k] \in 97..102 THEN h[k] - 32 ELSE h[k]]

Lower(h) == [k \in DOMAIN h |-> IF h[k] \in 65..70 THEN h[k] + 32 ELSE h[k]]

\* what the metadata service hands out: the MD5 of the header the stream starts with
GoodHash(c, n) == HexDigest(Take(c, HeaderLength(n)))

\* verify off: the twin run gets another hash, or other checksums in the table
Modes(t) ==
    IF t[1] = "none"
    THEN {"plain, other hash", "plain, other checksums", "verified", "verified, wrong hash",
          "verified, upper-case hash"}
    ELSE {"plain, other checksums", "verified"}

Input(blocks, t, m) ==
    LET n == Len(blocks)
        c == Tamper(blocks, t)
        h == GoodHash(c, n)
    IN  CASE m = "plain, other hash" ->
               [fp |-> c, hash |-> h, verify |-> FALSE, twin_fp |-> c, twin_hash |-> OtherHash(h)]
          [] m = "plain, other checksums" ->
               [fp |-> c, hash |-> h, verify |-> FALSE,
                twin_fp |-> OtherChecksums(c, n), twin_hash |-> h]
          [] m = "verified" ->
               [fp |-> c, hash |-> h, verify |-> TRUE, twin_fp |-> c, twin_hash |-> h]
          [] m = "verified, wrong hash" ->
               [fp |-> c, hash |-> OtherHash(h), verify |-> TRUE,
                twin_fp |-> c, twin_hash |-> OtherHash(h)]
          [] m = "verified, upper-case hash" ->
               [fp |-> c, hash |-> Upper(h), verify |-> TRUE,
                twin_fp |-> c, twin_hash |-> Upper(h)]

Inputs == UNION {{Input(x[1], x[2], m) : m \in Modes(x[2])} : x \in Streams}

(***************************************************************************)
(* The state machine.                                                      *)
(***************************************************************************)
Self ==
    [fp |-> fp, pos |-> pos, block_table |-> block_table, block_index |-> block_index,
     hash |-> hash, verify |-> verify, phase |-> phase, err |-> err, views |-> views,
     last |-> last]

Install(d) ==
    /\ fp' = d.fp
    /\ pos' = d.pos
    /\ block_table' = d.block_table
    /\ block_index' = d.block_index
    /\ hash' = d.hash
    /\ verify' = d.verify
    /\ phase' = d.phase
    /\ err' = d.err
    /\ views' = d.views
    /\ last' = d.last

Init ==
    \E c \in Inputs :
        /\ fp = c.fp
        /\ pos = 0
        /\ block_table = <<>>
        /\ block_index = 0
        /\ hash = c.hash
        /\ verify = c.verify
        /\ phase = "new"
        /\ err = NoErr
        /\ views = <<>>
        /\ last = NoObs
        /\ twin = NewRun(c.twin_fp, c.twin_hash, c.verify)

\* BLTEDecoder(fp, hash, verify)
DoConstruct ==
    /\ phase = "new"
    /\ Install(Construct(Self))
    /\ twin' = Construct(twin)

\* decoder.blocks / decoder.encoded_blocks
DoGetView(kind) ==
    /\ phase = "ready"
    /\ Len(views) < MaxViews
    /\ Install(GetView(Self, kind))
    /\ twin' = GetView(twin, kind)

\* len(decoder.block_table), decoder.block_table[i]
DoInspect ==
    /\ phase = "ready"
    /\ Install(InspectTable(Self))
    /\ twin' = InspectTable(twin)

\* next(view)
DoPull(v) ==
    /\ phase = "ready"
    /\ Install(Pull(Self, v))
    /\ twin' = Pull(twin, v)

Next ==
    \/ DoConstruct
    \/ \E kind \in {"blocks", "encoded_blocks"} : DoGetView(kind)
    \/ DoInspect
    \/ \E v \in 1..Len(views) : DoPull(v)

Spec == Init /\ [][Next]_vars

(***************************************************************************)
(* The container layout, read straight from the stream's bytes (the        *)
(* comment at the head of blte.py): what the properties compare the        *)
(* decoder's behaviour with.                                               *)
(***************************************************************************)
ValidPrefix(s) == Len(s) >= 9 /\ Take(s, 4) = Magic /\ s[9] = VersionByte

HeaderSizeField(s) == UnpackI32(SubSeq(s, 5, 8))

BlockCountField(s) == s[10] * 65536 + s[11] * 256 + s[12]

EncodedSizeField(s, i) == UnpackI32(SubSeq(s, 12 + 24 * i + 1, 12 + 24 * i + 4))

DecodedSizeField(s, i) == UnpackI32(SubSeq(s, 12 + 24 * i + 5, 12 + 24 * i + 8))

ChecksumField(s, i) == SubSeq(s, 12 + 24 * i + 9, 12 + 24 * i + 24)

RECURSIVE BlockOffset(_, _)
BlockOffset(s, i) ==
    IF i = 0 THEN HeaderSizeField(s) ELSE BlockOffset(s, i - 1) + EncodedSizeField(s, i - 1)

BlockBytes(s, i) == SubSeq(s, BlockOffset(s, i) + 1, BlockOffset(s, i + 1))

\* a complete header and table, then exactly the declared blocks, each one decodable
WellFormed(s) ==
    /\ ValidPrefix(s)
    /\ Len(s) >= 12
    /\ HeaderSizeField(s) = HeaderLength(BlockCountField(s))
    /\ Len(s) >= HeaderSizeField(s)
    /\ \A i \in 0..(BlockCountField(s) - 1) : EncodedSizeField(s, i) >= 1
    /\ Len(s) = BlockOffset(s, BlockCountField(s))
    /\ \A i \in 0..(BlockCountField(s) - 1) :
          \E q \in Contents : BlockBytes(s, i) \in Encodings(q)

\* every table checksum is the digest of its block
Untampered(s) ==
    \A i \in 0..(BlockCountField(s) - 1) : ChecksumField(s, i) = MD5(BlockBytes(s, i))

\* what block i of a well-formed container holds
Content(s, i) == CHOOSE q \in Contents : BlockBytes(s, i) \in Encodings(q)

Range(f) == {f[k] : k \in DOMAIN f}

Started == {v \in 1..Len(views) : views[v].st # "created"}

(***************************************************************************)
(* Properties.                                                             *)
(***************************************************************************)

\* C1: once a traversal of either view has been driven to completion, a view
\* that is requested and pulled afterwards fails with RuntimeError and yields
\* no block, for every block count N >= 0.
C1_SecondTraversalFails ==
    \A w \in Started :
        WellFormed(fp) /\ views[w].late => views[w].end = "already iterated" /\ views[w].out = <<>>

\* C2: once a traversal has begun, however it went on (run to its end,
\* abandoned, or failed, be it on the checksum of its first block), the first
\* pull of any other view fails with RuntimeError and reads nothing from the
\* stream.
C2_OneTraversalReadsTheStream ==
    (/\ WellFormed(fp)
     /\ last.op = "pull"
     /\ last.first
     /\ \E u \in Started : u # last.view)
    => /\ last.res = "raise"
       /\ err.cls = ErrorClass("already iterated")
       /\ last.data = <<>>

\* C3: verification off, well-formed container of N blocks: the decoded view
\* yields the blocks' contents in table order, block i being the bytes at
\* offset header_size + encoded_size[0] + ... + encoded_size[i-1], and it ends
\* after exactly N elements.
C3_BlocksInTableOrder ==
    (~verify /\ WellFormed(fp)) =>
        \A v \in Started :
            LET g == views[v]
            IN  g.kind = "blocks" =>
                  /\ Len(g.out) <= BlockCountField(fp)
                  /\ \A i \in 1..Len(g.out) : g.out[i] = Content(fp, i - 1)
                  /\ g.end \in {"none", "exhausted", "already iterated"}
                  /\ g.end = "exhausted" => Len(g.out) = BlockCountField(fp)
                  /\ g.end = "already iterated" => g.out = <<>> /\ Started # {v}
                  /\ g.end = "none" => Len(g.out) >= 1

C3_Witness ==
    /\ ~verify
    /\ WellFormed(fp)
    /\ \E v \in Started :
          /\ views[v].kind = "blocks"
          /\ views[v].end = "exhausted"
          /\ Len(views[v].out) = 2
          /\ views[v].out[1] # views[v].out[2]

\* what the caller can observe of a run, the table's checksums left out
Observable(d) ==
    [phase |-> d.phase, err |-> d.err, pos |-> d.pos, block_index |-> d.block_index,
     views |-> d.views, last |-> d.last,
     sizes |-> [k \in DOMAIN d.block_table |-> <<d.block_table[k][1], d.block_table[k][2]>>]]

\* C4: verification off: a run on an input that differs only in the checksum
\* bytes of the table entries, or only in the expected header checksum, fails or
\* succeeds alike and yields the same blocks.
C4_ChecksumDataIgnored == ~verify => Observable(Self) = Observable(twin)

C4_Witness ==
    /\ ~verify
    /\ twin.fp # fp
    /\ \E v \in Started : views[v].end = "exhausted" /\ Len(views[v].out) = 2

\* C5: verification on: when the bytes read for table entry i do not hash to
\* that entry's checksum, the pull raises a checksum error that carries the
\* index i, and decode_block has not been called on the block.
C5_ChecksumErrorNamesBlock ==
    (/\ verify
     /\ last.op = "pull"
     /\ last.entry >= 0
     /\ HexDigest(last.data) # block_table[last.entry + 1][3])
    => /\ last.res = "raise"
       /\ err.site = "block md5"
       /\ ~last.codec
       /\ last.entry \in Range(err.args)

\* C6: verification on, well-formed and untampered container, expected
\* checksum = MD5 of the header: construction succeeds and no traversal raises
\* a checksum error; a traversal that runs to its end has yielded all N blocks.
C6_UntamperedVerifies ==
    (/\ verify
     /\ phase # "new"
     /\ WellFormed(fp)
     /\ Untampered(fp)
     /\ hash = HexDigest(Take(fp, HeaderSizeField(fp))))
    => /\ phase = "ready"
       /\ err.site \notin {"header md5", "block md5"}
       /\ \A v \in Started :
             /\ views[v].end \in {"none", "exhausted", "already iterated"}
             /\ views[v].end = "exhausted" => Len(views[v].out) = BlockCountField(fp)

C6_Witness ==
    /\ verify
    /\ WellFormed(fp)
    /\ Untampered(fp)
    /\ \E v \in Started : views[v].end = "exhausted" /\ Len(views[v].out) = 2

\* C7: verification on: a traversal whose pull of block i failed the checksum
\* check has yielded exactly the blocks before i, and from then on it yields
\* nothing and reads nothing from the stream.
C7_NothingAfterChecksumFailure ==
    /\ [](\A v \in 1..Len(views) :
             views[v].end = "block md5" =>
                 /\ verify
                 /\ views[v].st = "closed"
                 /\ Len(views[v].out) = views[v].it)
    /\ [][\A v \in 1..Len(views) :
             views[v].end = "block md5" => views'[v] = views[v] /\ (last'.view = v => pos' = pos)]_vars

C7_Witness ==
    \E v \in 1..Len(views) :
        /\ views[v].end = "block md5"
        /\ views[v].it < Len(block_table) - 1
        /\ last.op = "pull" /\ last.view = v /\ last.res = "stop"

\* C8, as claimed: for every stream with valid magic and version byte, and every
\* value of the header_size field, construction leaves the stream at position
\* header_size.
C8_ConsumesHeaderSize ==
    (last.op = "construct" /\ ValidPrefix(fp)) => pos = HeaderSizeField(fp)

\* C8, amended: valid magic and version byte, header_size >= 9 and a stream of
\* at least header_size bytes: construction, whether it returns or raises,
\* leaves the stream at position header_size, and it stays there until the
\* first pull, so no payload byte has been read.
C8_ConsumesHeaderSizeFrom9 ==
    (/\ phase # "new"
     /\ ValidPrefix(fp)
     /\ HeaderSizeField(fp) >= 9
     /\ Len(fp) >= HeaderSizeField(fp)
     /\ Started = {})
    => pos = HeaderSizeField(fp)

C8_Witness ==
    /\ last.op = "construct"
    /\ phase = "ready"
    /\ ValidPrefix(fp)
    /\ HeaderSizeField(fp) >= 9
    /\ pos = HeaderSizeField(fp)
    /\ block_table # <<>>
    /\ Len(fp) > pos

\* the part of C9 that does not depend on the codec of 'Z'
DispatchFrame ==
    /\ last.data[1] = TagN => last.res = "yield" /\ last.value = Tail(last.data)
    /\ last.data[1] \notin {TagN, TagZ} =>
           /\ last.res = "raise"
           /\ err.cls = ErrorClass("unknown type")
           /\ last.data[1] \in Range(err.args)
    /\ pos = last.from + Len(last.data)
    /\ last.data = Read(fp, last.from, block_table[last.entry + 1][1])

\* C9, as claimed: decode_block on a non-empty block: tag 'N' gives the payload,
\* tag 'Z' the raw inflate of the payload, any other tag a ValueError naming
\* the tag; the pull has read the block's bytes and nothing else.
C9_DispatchRawInflate ==
    (last.op = "pull" /\ last.codec /\ last.data # <<>>) =>
        /\ DispatchFrame
        /\ \A q \in Contents :
              last.data = <<TagZ>> \o RawStored(q) => last.res = "yield" /\ last.value = q

\* C9, amended: as claimed, but tag 'Z' gives the zlib-format inflate of the
\* payload (2-byte zlib header, deflate data, Adler-32), and a raw deflate
\* stored block without that wrapper fails with zlib.error.
C9_DispatchZlibInflate ==
    (last.op = "pull" /\ last.codec /\ last.data # <<>>) =>
        /\ DispatchFrame
        /\ \A q \in Contents :
              /\ last.data = <<TagZ>> \o ZlibStored(q) => last.res = "yield" /\ last.value = q
              /\ last.data = <<TagZ>> \o RawStored(q) =>
                     last.res = "raise" /\ err.cls = ErrorClass("decompress")

C9_Witness ==
    /\ last.op = "pull"
    /\ last.codec
    /\ last.data = <<TagZ>> \o ZlibStored(<<120, 121>>)
    /\ last.res = "yield"
    /\ last.value = <<120, 121>>

\* C10: construction over a stream with a wrong magic or a wrong version byte
\* fails, leaves no block table, and raises an error of another kind than the
\* one a header checksum mismatch raises.
C10_FormatErrorIsDistinct ==
    (/\ last.op = "construct"
     /\ Len(fp) >= 9
     /\ Take(fp, 4) # Magic \/ fp[9] # VersionByte)
    => /\ phase = "failed"
       /\ block_table = <<>>
       /\ err.cls # ErrorClass("header md5")

\* C11: construction over a stream with valid magic whose header_size field is
\* 0 fails, and it has not read the rest of the stream as block-info data.
C11_HeaderSizeZeroRejected ==
    (/\ last.op = "construct"
     /\ Len(fp) >= 8
     /\ Take(fp, 4) = Magic
     /\ HeaderSizeField(fp) = 0)
    => /\ phase = "failed"
       /\ pos <= 9

\* the checksum parse_header computes: the MD5 of the 8-byte prefix, the
\* version byte and the block-info region, in hex
HeaderDigest(s) == HexDigest(Take(s, HeaderSizeField(s)))

\* C12: verification on: construction over a well-formed container succeeds if
\* and only if the expected checksum equals the header's MD5 ignoring letter
\* case, and fails with the header checksum error otherwise.
C12_HeaderCheckIgnoresCase ==
    (verify /\ last.op = "construct" /\ WellFormed(fp)) =>
        /\ phase = "ready" <=> Lower(hash) = HeaderDigest(fp)
        /\ phase = "failed" => err.site = "header md5"

\* C13: the block table is complete when construction returns (block_count
\* entries, in header order), before any pull; reading it moves neither the
\* stream nor the cursor; and no operation after construction changes it.
C13_TableFixedAtConstruction ==
    /\ [](phase = "ready" =>
             /\ Len(block_table) = BlockCountField(fp)
             /\ \A i \in 1..Len(block_table) :
                   block_table[i] = <<EncodedSizeField(fp, i - 1), DecodedSizeField(fp, i - 1),
                                      Hexlify(ChecksumField(fp, i - 1))>>)
    /\ [][phase = "ready" => block_table' = block_table]_vars
    /\ [][last'.op = "inspect" =>
             pos' = pos /\ block_index' = block_index /\ views' = views]_vars

C13_Witness ==
    /\ last.op = "inspect"
    /\ Len(block_table) = 2
    /\ block_table[1] # block_table[2]
    /\ \E v \in Started : views[v].end = "exhausted"

\* the elements the caller has been handed so far
TotalYielded == SumSeq([v \in 1..Len(views) |-> Len(views[v].out)])

\* the raising statements of decode_block
CodecSites == {"type", "unknown type", "decompress"}

\* C14, as claimed: the cursor stays within 0..block_count and equals the
\* number of elements yielded to the caller so far, also when the codec has
\* failed on a block of the decoded view.
C14_CursorCountsYields ==
    phase = "ready" =>
        /\ 0 <= block_index
        /\ block_index <= Len(block_table)
        /\ block_index = TotalYielded

\* C14, amended: the cursor never decreases, stays within 0..block_count and
\* advances by one exactly when encoded_blocks has read a block that passed the
\* checksum check: it equals the number of elements yielded to the caller, plus
\* one once decode_block has failed on a block of the decoded view.
C14_CursorCountsBlocksRead ==
    /\ [](phase = "ready" =>
             /\ 0 <= block_index
             /\ block_index <= Len(block_table)
             /\ block_index = SumSeq([v \in 1..Len(views) |-> views[v].it])
             /\ \A v \in 1..Len(views) :
                   views[v].it = Len(views[v].out)
                                 + (IF views[v].end \in CodecSites THEN 1 ELSE 0))
    /\ [][/\ block_index' \in {block_index, block_index + 1}
          /\ block_index' = block_index + 1 <=>
                 /\ last'.op = "pull"
                 /\ last'.res = "yield" \/ (last'.res = "raise" /\ last'.codec)]_vars

C14_Witness ==
    \E v \in Started :
        /\ views[v].kind = "blocks"
        /\ views[v].end \in CodecSites
        /\ Len(views[v].out) = 1
        /\ block_index = 2

\* the header region holds the whole table and the stream holds every declared byte
HoldsDeclaredBytes(s) ==
    /\ ValidPrefix(s)
    /\ Len(s) >= 12
    /\ HeaderSizeField(s) >= HeaderLength(BlockCountField(s))
    /\ \A i \in 0..(BlockCountField(s) - 1) : EncodedSizeField(s, i) >= 0
    /\ Len(s) >= BlockOffset(s, BlockCountField(s))

\* C15: after construction only pulls move the stream position, a pull that
\* reads moves it by the encoded_size of its table entry and hands on those
\* bytes of the stream, and after k successful pulls the position is
\* header_size + encoded_size[0] + ... + encoded_size[k-1].
C15_PullsAdvanceByEncodedSize ==
    (phase = "ready" /\ HoldsDeclaredBytes(fp)) =>
        /\ last.op = "construct" => pos = HeaderSizeField(fp)
        /\ last.op \in {"view", "inspect"} => pos = last.from
        /\ (last.op = "pull" /\ last.entry < 0) => pos = last.from
        /\ (last.op = "pull" /\ last.entry >= 0) =>
              /\ pos = last.from + EncodedSizeField(fp, last.entry)
              /\ last.data = SubSeq(fp, last.from + 1, pos)
        /\ (last.op = "pull" /\ last.res = "yield") => pos = BlockOffset(fp, TotalYielded)

\* the stream ends before header_size bytes, or the header_size - 9 bytes after
\* the version byte are fewer than the count and the declared table entries
TruncatedHeader(s) ==
    \/ Len(s) < HeaderSizeField(s)
    \/ HeaderSizeField(s) < 12
    \/ HeaderSizeField(s) < HeaderLength(BlockCountField(s))

\* C16: construction over a truncated header fails, with verification on or
\* off, and no decoder exists whose block table has fewer entries than the
\* declared block count.
C16_TruncatedHeaderFails ==
    /\ (/\ last.op = "construct"
        /\ ValidPrefix(fp)
        /\ HeaderSizeField(fp) >= 9
        /\ TruncatedHeader(fp)) => phase = "failed"
    /\ (phase = "ready" /\ HeaderSizeField(fp) >= 12) =>
           Len(block_table) = BlockCountField(fp)

\* C17: every failure of the decoded view that comes from decode_block is one
\* of the codec's errors (unknown block type, failed decompression), also when
\* the block read is empty and has no tag byte.
C17_DispatchFailureIsCodecError ==
    (last.op = "pull" /\ last.codec /\ last.res = "raise") =>
        err.cls \in {ErrorClass("unknown type"), ErrorClass("decompress")}

\* C18: a property access creates a view and does nothing else (no byte read,
\* cursor and other views untouched); when the views of a container with at
\* least one block are all obtained before the first pull, every view but the
\* first one pulled fails its first pull with the already-iterated error
\* without reading, and only the first one pulled ever yields.
C18_ViewsAreLazyAndExclusive ==
    /\ [][last'.op = "view" =>
              /\ pos' = pos
              /\ block_index' = block_index
              /\ Len(views') = Len(views) + 1
              /\ \A v \in 1..Len(views) : views'[v] = views[v]
              /\ views'[Len(views')].st = "created"]_vars
    /\ []((/\ phase = "ready"
           /\ Len(block_table) >= 1
           /\ \A v \in 1..Len(views) : views[v].upfront) =>
             /\ (/\ last.op = "pull"
                 /\ last.first
                 /\ Started # {last.view}) =>
                    /\ last.res = "raise"
                    /\ err.cls = ErrorClass("already iterated")
                    /\ pos = last.from
             /\ \A u, v \in 1..Len(views) :
                    (views[u].out # <<>> /\ views[v].out # <<>>) => u = v)

====
